---- MODULE Spec2Model ----
(***************************************************************************)
(* Adaptive screenshot compression of bytebotd: Base64ImageCompressor      *)
(* (compressToSize, compressWithResize, resizeToFitDimensions).            *)
(*                                                                         *)
(* The codec (sharp) is an external capability.  An image is represented   *)
(* by its pixel dimensions and by the function that gives, for every       *)
(* quality, the byte length of its encoding; every such function over the  *)
(* modelled sizes is a possible image.  Sizes are byte counts.             *)
(***************************************************************************)
EXTENDS Integers, Sequences, FiniteSets, TLC

\* ------------------------------------------------------------------ bounds
MaxQuality == 3
MaxIter == 2
MaxDim == 2
MaxBytes == 3
\* The top of the quality scale of the wide searches.
MaxScale == 100

\* ------------------------------------------------------- program constants
DefaultTargetSizeKB == 1024
DefaultMaxIterations == 10
DefaultMaxWidth == 2048
DefaultMaxHeight == 2048
BytesPerKB == 1024

\* An option that the caller did not supply.
undefined == 0 - 1

\* ------------------------------------------------------ IEEE-754 doubles
\* A double d with 0 <= d < 1 that is a multiple of 2^-56 is the pair
\* <<hi, lo>> with d = (hi * 2^28 + lo) / 2^56 and 0 <= hi, lo < 2^28.
Limb == 2^28

\* Mutant of Floor03: the loop floor at 0.2.
ScaleFloor02 == <<53687091, 53687092>>

\* The doubles nearest to the literals 0.9, 0.1 and 0.3.
Scale09 == <<241591910, 107374184>>
Step01 == <<26843545, 161061274>>
Floor03 == <<80530636, 214748364>>

\* Spacing of the doubles around int + hi * 2^-28, in units of 2^-56 (53-bit
\* significand), for 0 <= int < 2^12.
Ulp(int, hi) ==
    IF int = 0
    THEN IF hi < 2^25 THEN 1
         ELSE IF hi < 2^26 THEN 2
         ELSE IF hi < 2^27 THEN 4
         ELSE 8
    ELSE 2^(4 + (CHOOSE k \in 0..11 : 2^k <= int /\ int < 2^(k + 1)))

\* Round-to-nearest, ties-to-even, of the exact value int + <<hi, lo>>.
Round53(int, hi, lo) ==
    LET u == Ulp(int, hi)
        r == lo % u
        down == lo - r
        up == down + u
        pick == IF 2 * r < u THEN down
                ELSE IF 2 * r > u THEN up
                ELSE IF (down \div u) % 2 = 0 THEN down ELSE up
        hi2 == IF pick = Limb THEN hi + 1 ELSE hi
    IN  <<IF hi2 = Limb THEN int + 1 ELSE int,
          IF hi2 = Limb THEN 0 ELSE hi2,
          IF pick = Limb THEN 0 ELSE pick>>

\* a - b in double arithmetic, for 1 > a >= b >= 0.
DSub(a, b) ==
    LET borrow == IF a[2] < b[2] THEN 1 ELSE 0
        lo == a[2] - b[2] + borrow * Limb
        hi == a[1] - b[1] - borrow
        d == Round53(0, hi, lo)
    IN  <<d[2], d[3]>>

DGreater(a, b) == a[1] > b[1] \/ (a[1] = b[1] /\ a[2] > b[2])

\* Math.floor(n * s) for an integer 0 <= n < 2^12 and a double 0 <= s < 1:
\* the exact product, digit by digit in base 2^14, rounded as the double
\* multiplication rounds it, then floored.
FloorMul(n, s) ==
    LET B == 2^14
        d0 == n * (s[2] % B)
        d1 == n * (s[2] \div B) + (d0 \div B)
        d2 == n * (s[1] % B) + (d1 \div B)
        d3 == n * (s[1] \div B) + (d2 \div B)
        int == d3 \div B
        hi == (d3 % B) * B + (d2 % B)
        lo == (d1 % B) * B + (d0 % B)
    IN  Round53(int, hi, lo)[1]

Max(a, b) == IF a >= b THEN a ELSE b
Min(a, b) == IF a <= b THEN a ELSE b

\* Half-up rounding of the quotient a / b of two positive integers.
RoundDiv(a, b) == (2 * a + b) \div (2 * b)

\* Mutant of FitInside: the image is scaled to the width alone.
FitWidth(w, h, bw, bh) ==
    IF w <= bw THEN [width |-> w, height |-> h]
    ELSE [width |-> bw, height |-> Max(RoundDiv(h * bw, w), 1)]

\* sharp's resize({width: bw, height: bh, fit: 'inside',
\* withoutEnlargement: true}) of a w x h image: the output dimensions.  An
\* undefined width or height is no constraint: the caller passes the image's
\* own.
FitInside(w, h, bw, bh) ==
    IF w <= bw /\ h <= bh THEN [width |-> w, height |-> h]
    ELSE IF w * bh >= h * bw
         THEN [width |-> bw, height |-> Max(RoundDiv(h * bw, w), 1)]
         ELSE [width |-> Max(RoundDiv(w * bh, h), 1), height |-> bh]

\* ------------------------------------------------------------ the codec
Qualities == 1..MaxQuality
SizesKB == {512, 1024, 1536}
Sizes == {kb * BytesPerKB : kb \in SizesKB}

\* An image, as far as compressBuffer can tell images apart: the byte length
\* of its encoding at each quality.
Codecs == [Qualities -> Sizes]

\* "Size is non-decreasing in quality."
Monotone(enc) ==
    \A q1, q2 \in Qualities : q1 <= q2 => enc[q1] <= enc[q2]

\* No buffer (before the first image is decoded, after a call has ended).
NoCodec == [q \in Qualities |-> 0]

\* compressBuffer(inputBuffer, quality, format): the length of the output.
compressBuffer(enc, quality) == enc[quality]

\* --------------------------------------------------------------- options
Formats == {"png", "jpeg", "webp"}

\* Lines 136-137: the default branch of compressBuffer's switch.
UnsupportedFormat(format) == format \notin Formats

Options(targets, iters, dims, formats) ==
    [targetSizeKB : targets,
     initialQuality : Qualities,
     minQuality : Qualities,
     maxIterations : iters,
     maxWidth : dims,
     maxHeight : dims,
     format : formats]

\* const { targetSizeKB = 1024, ..., maxIterations = 10 } = options
OrDefault(value, default) == IF value = undefined THEN default ELSE value

\* const { targetSizeKB, maxWidth, maxHeight, ...compressionOptions } = options
RestOptions(options) ==
    [options EXCEPT !.targetSizeKB = undefined,
                    !.maxWidth = undefined,
                    !.maxHeight = undefined]

NoOptions ==
    [targetSizeKB |-> undefined, initialQuality |-> 1, minQuality |-> 1,
     maxIterations |-> undefined, maxWidth |-> undefined,
     maxHeight |-> undefined, format |-> "png"]

\* sizeKB <= targetSizeKB, where sizeKB = sizeBytes / 1024 (the division by a
\* power of two is exact in double arithmetic).
FitsKB(sizeBytes, targetSizeKB) == sizeBytes <= targetSizeKB * BytesPerKB

\* The double n / 2^bits for an integer 0 <= n < 2^31: the quotient by a
\* power of two is exact, an integer part and a fraction of `bits` bits.
Quotient2(n, bits) == [int |-> n \div 2^bits, frac |-> n % 2^bits, bits |-> bits]

\* x * 2^bits in double arithmetic, for such a double with integer product.
Times2(x, bits) ==
    IF x.bits <= bits THEN (x.int * 2^x.bits + x.frac) * 2^(bits - x.bits)
    ELSE undefined

\* Mutant of sizeMB: the bytes divided by 1024 only.
sizeMBAsKB(sizeBytes) == Quotient2(sizeBytes, 10)

\* sizeBytes / 1024 and sizeBytes / (1024 * 1024), lines 86-87
sizeKB(sizeBytes) == Quotient2(sizeBytes, 10)
sizeMB(sizeBytes) == Quotient2(sizeBytes, 20)

\* The length of buffer.toString('base64') for a buffer of n bytes, and the
\* number of padding characters at its end.
Base64Length(n) == 4 * ((n + 2) \div 3)
Base64Padding(n) == (3 - (n % 3)) % 3

\* The length of Buffer.from(string, 'base64') for a string with that many
\* base64 digits.
DecodedLength(digits) == (digits * 6) \div 8

NoResult == [sizeBytes |-> 0, sizeKB |-> Quotient2(0, 10),
             sizeMB |-> Quotient2(0, 20),
             quality |-> 0, iterations |-> 0, format |-> "none", image |-> 0]
NoBest == [size |-> 0, quality |-> 0]
NoDims == [width |-> 0, height |-> 0]
Zero == <<0, 0>>

\* Highest quality of low..high whose encoding fits the target; 0 if none.
BestFit(enc, low, high, targetSizeKB) ==
    LET fit == {q \in low..high : FitsKB(enc[q], targetSizeKB)}
    IN  IF fit = {} THEN 0 ELSE CHOOSE q \in fit : \A r \in fit : r <= q

\* ------------------------------------------------- base64 and data URLs
\* A character is its value in the base64 alphabet (A-Z 0..25, a-z 26..51,
\* 0-9 52..61, + 62, / 63) or one of the codes below; a string is a
\* sequence of characters, a Buffer a sequence of bytes.
PadChar == 64
Colon == 65
Semicolon == 66
Comma == 67

\* [A-Za-z0-9+/]
IsBase64Char(c) == c \in 0..63

\* \w, among the characters above: [A-Za-z0-9]
IsWordChar(c) == c \in 0..61

\* The literals "data:image/" and ";base64," of the regular expression.
DataImage == <<29, 26, 45, 26, Colon, 34, 38, 26, 32, 30, 63>>
Base64Marker == <<Semicolon, 27, 26, 44, 30, 58, 56, Comma>>

\* buffer.toString('base64')
RECURSIVE toBase64(_)
toBase64(bytes) ==
    IF Len(bytes) = 0 THEN <<>>
    ELSE IF Len(bytes) = 1
    THEN <<bytes[1] \div 4, (bytes[1] % 4) * 16, PadChar, PadChar>>
    ELSE IF Len(bytes) = 2
    THEN <<bytes[1] \div 4,
           (bytes[1] % 4) * 16 + bytes[2] \div 16,
           (bytes[2] % 16) * 4,
           PadChar>>
    ELSE <<bytes[1] \div 4,
           (bytes[1] % 4) * 16 + bytes[2] \div 16,
           (bytes[2] % 16) * 4 + bytes[3] \div 64,
           bytes[3] % 64>>
         \o toBase64(SubSeq(bytes, 4, Len(bytes)))

\* The bytes of a sequence of base64 digits.
RECURSIVE DecodeDigits(_)
DecodeDigits(digits) ==
    IF Len(digits) < 2 THEN <<>>
    ELSE IF Len(digits) = 2
    THEN <<digits[1] * 4 + digits[2] \div 16>>
    ELSE IF Len(digits) = 3
    THEN <<digits[1] * 4 + digits[2] \div 16,
           (digits[2] % 16) * 16 + digits[3] \div 4>>
    ELSE <<digits[1] * 4 + digits[2] \div 16,
           (digits[2] % 16) * 16 + digits[3] \div 4,
           (digits[3] % 4) * 64 + digits[4]>>
         \o DecodeDigits(SubSeq(digits, 5, Len(digits)))

\* Buffer.from(string, 'base64'): characters outside the alphabet are
\* skipped, the digits that remain are decoded.
fromBase64(string) == DecodeDigits(SelectSeq(string, IsBase64Char))

\* base64String.replace(/^data:image\/\w+;base64,/, '')
stripDataUrl(string) ==
    LET n == Len(DataImage)
        m == Len(Base64Marker)
        starts == Len(string) >= n /\ SubSeq(string, 1, n) = DataImage
        run == CHOOSE k \in 0..(Len(string) - n) :
                   /\ \A i \in 1..k : IsWordChar(string[n + i])
                   /\ (n + k = Len(string) \/ ~IsWordChar(string[n + k + 1]))
    IN  IF /\ starts
           /\ run >= 1
           /\ Len(string) >= n + run + m
           /\ SubSeq(string, n + run + 1, n + run + m) = Base64Marker
        THEN SubSeq(string, n + run + m + 1, Len(string))
        ELSE string

\* Lines 40-41, 158-159 and 255-256: the buffer the three entry points work on.
decodeInput(string) == fromBase64(stripDataUrl(string))

\* x >= 1 for a double x = n / 2^bits
AtLeastOne(x) == x.int >= 1

\* x.toFixed(2), as a number of hundredths: the integer n for which n / 100 is
\* nearest to x, the larger one of two.
toFixed2(x) == ((x.int * 2^x.bits + x.frac) * 200 + 2^x.bits) \div 2^(x.bits + 1)

\* x > 1 for such a double
MoreThanOne(x) == x.int > 1 \/ (x.int = 1 /\ x.frac > 0)

\* Mutant of SizeInfo: the labels change above 1 KB and 1 MB, not at them.
SizeInfoAbove(bytes) ==
    LET kb == Quotient2(bytes, 10)
        mb == Quotient2(bytes, 20)
    IN  [bytes |-> bytes, kb |-> kb, mb |-> mb,
         formatted |->
             IF MoreThanOne(mb)
             THEN [number |-> toFixed2(mb), unit |-> "MB"]
             ELSE IF MoreThanOne(kb)
                  THEN [number |-> toFixed2(kb), unit |-> "KB"]
                  ELSE [number |-> bytes, unit |-> "bytes"]]

\* Lines 257-269 of getBase64SizeInfo, for a buffer of `bytes` bytes.  The
\* formatted string is its number (in hundredths for the MB and KB forms) and
\* its unit.
SizeInfo(bytes) ==
    LET kb == Quotient2(bytes, 10)
        mb == Quotient2(bytes, 20)
    IN  [bytes |-> bytes, kb |-> kb, mb |-> mb,
         formatted |->
             IF AtLeastOne(mb)
             THEN [number |-> toFixed2(mb), unit |-> "MB"]
             ELSE IF AtLeastOne(kb)
                  THEN [number |-> toFixed2(kb), unit |-> "KB"]
                  ELSE [number |-> bytes, unit |-> "bytes"]]

getBase64SizeInfo(string) == SizeInfo(Len(decodeInput(string)))

NoInfo ==
    [bytes |-> undefined, kb |-> Quotient2(0, 10), mb |-> Quotient2(0, 20),
     formatted |-> [number |-> 0, unit |-> "none"]]

\* A string too long to write out: it is known by the length of the buffer it
\* decodes to.
LongString == <<undefined, undefined>>

\* No buffer decoded yet.
NoBuffer == <<undefined>>

\* ------------------------------------------------------ screenshot.config
\* An environment variable that is not set.
unset == "unset"

ConfigTargetSizeKB == 512
ConfigInitialQuality == 85
ConfigMinQuality == 40
DisplayWidth == 1280
DisplayHeight == 960

\* The numbers whose decimal numerals the environment may hold.
Numerals == (0 - 2)..MaxQuality \cup {ConfigTargetSizeKB, 2 * DefaultTargetSizeKB}

NaN == [finite |-> FALSE, value |-> 0]

\* Number(value), for a decimal numeral, "Infinity" or a word.
Number(value) ==
    IF \E n \in Numerals : ToString(n) = value
    THEN [finite |-> TRUE,
          value |-> CHOOSE n \in Numerals : ToString(n) = value]
    ELSE IF value = "Infinity" THEN [finite |-> FALSE, value |-> 1]
    ELSE NaN

\* !value, for value: string | undefined
Missing(value) == value = unset \/ value = ""

toNumber(value, fallback) ==
    IF Missing(value) THEN fallback
    ELSE LET parsed == Number(value)
         IN  IF parsed.finite /\ parsed.value > 0 THEN parsed.value
             ELSE fallback

\* value.toLowerCase(), for the words the environment may hold.
toLowerCase(value) ==
    CASE value = "TRUE" -> "true"
      [] value = "Yes" -> "yes"
      [] value = "ON" -> "on"
      [] value = "PNG" -> "png"
      [] value = "Jpeg" -> "jpeg"
      [] value = "JPEG" -> "jpeg"
      [] value = "WebP" -> "webp"
      [] value = "GIF" -> "gif"
      [] OTHER -> value

toBoolean(value, fallback) ==
    IF value = unset THEN fallback
    ELSE toLowerCase(value) \in {"1", "true", "yes", "on"}

\* Mutant of toCompressionFormat: the lower-cased value is taken as it is.
toCompressionFormatUnchecked(value, fallback) ==
    IF Missing(value) THEN fallback ELSE toLowerCase(value)

toCompressionFormat(value, fallback) ==
    IF Missing(value) THEN fallback
    ELSE LET normalized == toLowerCase(value)
         IN  IF normalized \in Formats THEN normalized ELSE fallback

mediaTypeMap(f) ==
    CASE f = "png" -> "image/png"
      [] f = "jpeg" -> "image/jpeg"
      [] f = "webp" -> "image/webp"
      [] OTHER -> "undefined"

\* parseInt(envValue?.trim() ?? '', 10), isNaN(parsed) ? fallback : parsed
getDisplay(value, fallback) ==
    IF value = unset THEN fallback
    ELSE LET parsed == Number(value)
         IN  IF parsed = NaN \/ ~parsed.finite THEN fallback ELSE parsed.value

SCREENSHOT_CONFIG(e) ==
    LET format == toCompressionFormat(e.SCREENSHOT_IMAGE_FORMAT, "png")
    IN  [compressionEnabled |-> toBoolean(e.SCREENSHOT_COMPRESSION_ENABLED, TRUE),
         targetSizeKB |-> toNumber(e.SCREENSHOT_TARGET_SIZE_KB, ConfigTargetSizeKB),
         initialQuality |-> toNumber(e.SCREENSHOT_INITIAL_QUALITY,
                                     ConfigInitialQuality),
         minQuality |-> toNumber(e.SCREENSHOT_MIN_QUALITY, ConfigMinQuality),
         maxWidth |-> getDisplay(e.DISPLAY_WIDTH, DisplayWidth),
         maxHeight |-> getDisplay(e.DISPLAY_HEIGHT, DisplayHeight),
         format |-> format,
         mediaType |-> mediaTypeMap(format)]

Envs(enabled, targets, initials, mins, formats, widths) ==
    [SCREENSHOT_COMPRESSION_ENABLED : enabled,
     SCREENSHOT_TARGET_SIZE_KB : targets,
     SCREENSHOT_INITIAL_QUALITY : initials,
     SCREENSHOT_MIN_QUALITY : mins,
     SCREENSHOT_IMAGE_FORMAT : formats,
     DISPLAY_WIDTH : widths,
     DISPLAY_HEIGHT : {unset}]

NoEnv ==
    [SCREENSHOT_COMPRESSION_ENABLED |-> unset,
     SCREENSHOT_TARGET_SIZE_KB |-> unset,
     SCREENSHOT_INITIAL_QUALITY |-> unset,
     SCREENSHOT_MIN_QUALITY |-> unset,
     SCREENSHOT_IMAGE_FORMAT |-> unset,
     DISPLAY_WIDTH |-> unset,
     DISPLAY_HEIGHT |-> unset]

NoConfig ==
    [compressionEnabled |-> FALSE, targetSizeKB |-> 0, initialQuality |-> 0,
     minQuality |-> 0, maxWidth |-> 0, maxHeight |-> 0, format |-> "none",
     mediaType |-> "none"]

NoResponse ==
    [image |-> "none", base64 |-> <<>>, compressed |-> NoResult,
     mediaType |-> "none"]

VARIABLES
    pc,            \* where the call stands
    api,           \* the public method that was called
    options,       \* the options object the caller passed
    input,         \* dimensions of the decoded input image
    constrained,   \* dimensions of constrainedBuffer
    requested,     \* newWidth x newHeight of the last resize attempt
    scale,         \* the double `scale` of the resize loop
    result,        \* `result` of compressWithResize / the returned record
    caller,        \* where the running compressToSize returns to
    ctsOptions,    \* the options object compressToSize received
    buffer,        \* inputBuffer of compressToSize (its encoded size per quality)
    low, high, quality, iterations, bestResult,   \* locals of compressToSize
    encodes,       \* history: compressBuffer calls of the current compressToSize
    probed,        \* history: the qualities its loop has encoded at
    searches,      \* history: compressToSize invocations of the current call
    resizes,       \* history: resize attempts of the current call
    lastScale,     \* history: the scale of the last resize attempt
    error,         \* the error the call was rejected with
    attemptMin,    \* history: smallest result size of the resize attempts
    env,           \* process.env
    config,        \* SCREENSHOT_CONFIG, once screenshot.config is loaded
    frame,         \* bytes of the buffer screendump() returned
    shotPc,        \* where screenshot() stands
    response,      \* what screenshot() returned
    warned,        \* logger.warn was called by the running screenshot()
    base64String,  \* the string argument of a decoding call
    inputBuffer,   \* bytes of the Buffer decoded from base64String
    byteCount,     \* `bytes` of getBase64SizeInfo: the length of that Buffer
    sizeInfo,      \* what getBase64SizeInfo returned
    other          \* the locals of a second call, suspended at an await

ctsVars == <<ctsOptions, buffer, low, high, quality, iterations, bestResult,
             encodes, probed>>
cwrVars == <<constrained, requested, scale, lastScale>>
histVars == <<searches, resizes, attemptMin>>
callVars == <<pc, api, options, input, result, caller, error, ctsVars, cwrVars,
              histVars>>
shotVars == <<env, config, frame, shotPc, response, warned>>
urlVars == <<base64String, inputBuffer, byteCount, sizeInfo>>

\* What the compressor's code does not touch: its callers' state, and the
\* locals of another call.
outerVars == <<shotVars, urlVars, other>>
vars == <<callVars, outerVars>>

Fresh ==
    /\ constrained = NoDims /\ requested = NoDims
    /\ scale = Zero /\ lastScale = Zero
    /\ result = NoResult /\ caller = "none"
    /\ ctsOptions = NoOptions /\ buffer = NoCodec
    /\ low = 0 /\ high = 0 /\ quality = 0 /\ iterations = 0
    /\ bestResult = NoBest /\ encodes = 0 /\ probed = {}
    /\ searches = 0 /\ resizes = 0
    /\ attemptMin = 0

\* The value of callVars when no call is in progress.
IdleContext ==
    <<"idle", "none", NoOptions, NoDims, NoResult, "none", "none",
      <<NoOptions, NoCodec, 0, 0, 0, 0, NoBest, 0, {}>>,
      <<NoDims, NoDims, Zero, Zero>>,
      <<0, 0, 0>>>>

\* No call of the compressor is in progress.
NoCall ==
    /\ pc = "idle" /\ api = "none" /\ options = NoOptions /\ input = NoDims
    /\ error = "none"
    /\ Fresh

\* No screenshot() is in progress; the configuration is not loaded.
NoShot ==
    /\ env = NoEnv /\ config = NoConfig
    /\ frame = <<>> /\ shotPc = "idle"
    /\ response = NoResponse /\ warned = FALSE

\* No string is being decoded.
NoSize == byteCount = undefined /\ sizeInfo = NoInfo
NoDecoding == base64String = <<>> /\ inputBuffer = NoBuffer /\ NoSize

Init ==
    /\ NoCall
    /\ NoShot
    /\ NoDecoding
    /\ other = IdleContext

\* The locals of compressWithResize and the history of a call, fresh.
FreshCall ==
    /\ constrained' = NoDims /\ requested' = NoDims
    /\ scale' = Zero /\ lastScale' = Zero
    /\ result' = NoResult
    /\ resizes' = 0 /\ attemptMin' = 0

\* The locals of compressToSize, not yet entered (or its promise rejected).
NoSearch ==
    /\ caller' = "none"
    /\ ctsOptions' = NoOptions /\ buffer' = NoCodec
    /\ low' = 0 /\ high' = 0 /\ quality' = 0 /\ iterations' = 0
    /\ bestResult' = NoBest /\ encodes' = 0 /\ probed' = {}

\* No call is in progress.
Idle == pc = "idle"

\* ------------------------------------------------------- compressToSize
\* Lines 31-50: destructure the options, decode, initialise the search.
EnterCompressToSize(enc, opts, from) ==
    /\ ctsOptions' = opts
    /\ buffer' = enc
    /\ quality' = opts.initialQuality
    /\ iterations' = 0
    /\ low' = opts.minQuality
    /\ high' = opts.initialQuality
    /\ bestResult' = NoBest
    /\ encodes' = 0
    /\ probed' = {}
    /\ caller' = from
    /\ pc' = "cts_loop"

ctsTargetSizeKB == OrDefault(ctsOptions.targetSizeKB, DefaultTargetSizeKB)
ctsMaxIterations == OrDefault(ctsOptions.maxIterations, DefaultMaxIterations)

\* Mutant of SearchContinues: the cap compared with <=.
SearchContinuesInclusive == low <= high /\ iterations <= ctsMaxIterations

\* while (low <= high && iterations < maxIterations)
SearchContinues == low <= high /\ iterations < ctsMaxIterations

\* Mutant of Probe: a fitting quality does not replace an earlier one.
ProbeKeepsFirstFit ==
    /\ pc = "cts_loop"
    /\ SearchContinues
    /\ LET mid == (low + high) \div 2
           size == compressBuffer(buffer, mid)
       IN  /\ quality' = mid
           /\ IF FitsKB(size, ctsTargetSizeKB)
              THEN /\ bestResult' = IF bestResult = NoBest
                                    THEN [size |-> size, quality |-> mid]
                                    ELSE bestResult
                   /\ low' = mid + 1
                   /\ high' = high
              ELSE /\ bestResult' = bestResult
                   /\ high' = mid - 1
                   /\ low' = low
    /\ iterations' = iterations + 1
    /\ encodes' = encodes + 1
    /\ probed' = probed \cup {quality'}
    /\ UNCHANGED <<pc, api, options, input, result, caller, error, ctsOptions,
                   buffer, searches, cwrVars, resizes, attemptMin>>
    /\ UNCHANGED outerVars

\* Mutant of Probe: every encoding is recorded as the best, fitting or not.
ProbeRecordsEveryEncoding ==
    /\ pc = "cts_loop"
    /\ SearchContinues
    /\ LET mid == (low + high) \div 2
           size == compressBuffer(buffer, mid)
       IN  /\ quality' = mid
           /\ bestResult' = [size |-> size, quality |-> mid]
           /\ IF FitsKB(size, ctsTargetSizeKB)
              THEN /\ low' = mid + 1
                   /\ high' = high
              ELSE /\ high' = mid - 1
                   /\ low' = low
    /\ iterations' = iterations + 1
    /\ encodes' = encodes + 1
    /\ probed' = probed \cup {quality'}
    /\ UNCHANGED <<pc, api, options, input, result, caller, error, ctsOptions,
                   buffer, searches, cwrVars, resizes, attemptMin>>
    /\ UNCHANGED outerVars

\* Mutant of Probe: the quality probed is the top of the window.
ProbeFromTheTop ==
    /\ pc = "cts_loop"
    /\ SearchContinues
    /\ LET mid == high
           size == compressBuffer(buffer, mid)
       IN  /\ quality' = mid
           /\ IF FitsKB(size, ctsTargetSizeKB)
              THEN /\ bestResult' = [size |-> size, quality |-> mid]
                   /\ low' = mid + 1
                   /\ high' = high
              ELSE /\ bestResult' = bestResult
                   /\ high' = mid - 1
                   /\ low' = low
    /\ iterations' = iterations + 1
    /\ encodes' = encodes + 1
    /\ probed' = probed \cup {quality'}
    /\ UNCHANGED <<pc, api, options, input, result, caller, error, ctsOptions,
                   buffer, searches, cwrVars, resizes, attemptMin>>
    /\ UNCHANGED outerVars

\* Mutant of Probe: the probed quality stays in the window.
ProbeKeepsMid ==
    /\ pc = "cts_loop"
    /\ SearchContinues
    /\ LET mid == (low + high) \div 2
           size == compressBuffer(buffer, mid)
       IN  /\ quality' = mid
           /\ IF FitsKB(size, ctsTargetSizeKB)
              THEN /\ bestResult' = [size |-> size, quality |-> mid]
                   /\ low' = IF mid < high THEN mid ELSE mid + 1
                   /\ high' = high
              ELSE /\ bestResult' = bestResult
                   /\ high' = mid - 1
                   /\ low' = low
    /\ iterations' = iterations + 1
    /\ encodes' = encodes + 1
    /\ probed' = probed \cup {quality'}
    /\ UNCHANGED <<pc, api, options, input, result, caller, error, ctsOptions,
                   buffer, searches, cwrVars, resizes, attemptMin>>
    /\ UNCHANGED outerVars

\* One iteration of the binary search (lines 53-67).
Probe ==
    /\ pc = "cts_loop"
    /\ SearchContinues
    /\ LET mid == (low + high) \div 2
           size == compressBuffer(buffer, mid)
       IN  /\ quality' = mid
           /\ IF FitsKB(size, ctsTargetSizeKB)
              THEN /\ bestResult' = [size |-> size, quality |-> mid]
                   /\ low' = mid + 1
                   /\ high' = high
              ELSE /\ bestResult' = bestResult
                   /\ high' = mid - 1
                   /\ low' = low
    /\ iterations' = iterations + 1
    /\ encodes' = encodes + 1
    /\ probed' = probed \cup {quality'}
    /\ UNCHANGED <<pc, api, options, input, result, caller, error, ctsOptions,
                   buffer, searches, cwrVars, resizes, attemptMin>>
    /\ UNCHANGED outerVars

\* Mutant of SearchResult: the quality reported is the one probed last.
SearchResultLastProbed ==
    LET chosen == IF bestResult = NoBest
                  THEN [size |-> compressBuffer(buffer, ctsOptions.minQuality),
                        quality |-> ctsOptions.minQuality]
                  ELSE bestResult
    IN  [sizeBytes |-> chosen.size,
         sizeKB |-> sizeKB(chosen.size),
         sizeMB |-> sizeMB(chosen.size),
         quality |-> IF bestResult = NoBest THEN chosen.quality ELSE quality,
         iterations |-> iterations,
         format |-> ctsOptions.format,
         image |-> resizes]

\* Mutant of SearchResult: the iterations add up over the searches of a call.
SearchResultAccumulating ==
    LET chosen == IF bestResult = NoBest
                  THEN [size |-> compressBuffer(buffer, ctsOptions.minQuality),
                        quality |-> ctsOptions.minQuality]
                  ELSE bestResult
    IN  [sizeBytes |-> chosen.size,
         sizeKB |-> sizeKB(chosen.size),
         sizeMB |-> sizeMB(chosen.size),
         quality |-> chosen.quality,
         iterations |-> result.iterations + iterations,
         format |-> ctsOptions.format,
         image |-> resizes]

\* Lines 70-91: the record compressToSize returns.
SearchResult ==
    LET chosen == IF bestResult = NoBest
                  THEN [size |-> compressBuffer(buffer, ctsOptions.minQuality),
                        quality |-> ctsOptions.minQuality]
                  ELSE bestResult
    IN  [sizeBytes |-> chosen.size,
         sizeKB |-> sizeKB(chosen.size),
         sizeMB |-> sizeMB(chosen.size),
         quality |-> chosen.quality,
         iterations |-> iterations,
         format |-> ctsOptions.format,
         image |-> resizes]

\* Mutant of ReturnFromCompressToSize: the resize loop keeps the smaller of
\* its previous result and the new one.
ReturnKeepsSmaller ==
    /\ pc = "cts_loop"
    /\ ~SearchContinues
    /\ quality' = SearchResult.quality
    /\ encodes' = IF bestResult = NoBest THEN encodes + 1 ELSE encodes
    /\ probed' = probed
    /\ result' = IF caller = "loop" /\ result.sizeBytes < SearchResult.sizeBytes
                 THEN result ELSE SearchResult
    /\ IF caller = "loop"
       THEN /\ pc' = "cwr_loop"
            /\ scale' = DSub(scale, Step01)
            /\ attemptMin' = IF attemptMin = 0 THEN SearchResult.sizeBytes
                             ELSE Min(attemptMin, SearchResult.sizeBytes)
       ELSE /\ pc' = IF caller = "first" THEN "cwr_check" ELSE "done"
            /\ UNCHANGED <<scale, attemptMin>>
    /\ UNCHANGED <<api, options, input, caller, error, ctsOptions, buffer, low,
                   high, iterations, bestResult, constrained, requested,
                   lastScale, searches, resizes>>
    /\ UNCHANGED outerVars

\* The search loop has ended: fall back to minQuality if nothing fitted,
\* build the result and resume the caller after its await.
ReturnFromCompressToSize ==
    /\ pc = "cts_loop"
    /\ ~SearchContinues
    /\ quality' = SearchResult.quality
    /\ encodes' = IF bestResult = NoBest THEN encodes + 1 ELSE encodes
    /\ probed' = probed
    /\ result' = SearchResult
    /\ IF caller = "loop"
       THEN \* result = await this.compressToSize(...); scale -= 0.1;
            /\ pc' = "cwr_loop"
            /\ scale' = DSub(scale, Step01)
            /\ attemptMin' = IF attemptMin = 0 THEN SearchResult.sizeBytes
                             ELSE Min(attemptMin, SearchResult.sizeBytes)
       ELSE /\ pc' = IF caller = "first" THEN "cwr_check" ELSE "done"
            /\ UNCHANGED <<scale, attemptMin>>
    /\ UNCHANGED <<api, options, input, caller, error, ctsOptions, buffer, low,
                   high, iterations, bestResult, constrained, requested,
                   lastScale, searches, resizes>>
    /\ UNCHANGED outerVars

\* A direct call of the public compressToSize on an image.
CallCompressToSize(opts, enc) ==
    /\ Idle
    /\ api' = "compressToSize"
    /\ options' = opts
    /\ input' = NoDims
    /\ error' = "none"
    /\ FreshCall
    /\ searches' = 1
    /\ EnterCompressToSize(enc, opts, "direct")
    /\ UNCHANGED outerVars

\* ---------------------------------------------------- compressWithResize
cwrTargetSizeKB == OrDefault(options.targetSizeKB, DefaultTargetSizeKB)
cwrMaxWidth == OrDefault(options.maxWidth, DefaultMaxWidth)
cwrMaxHeight == OrDefault(options.maxHeight, DefaultMaxHeight)

\* !x for an optional number
Falsy(x) == x = undefined \/ x = 0

\* Mutant of resizeToFitDimensions: lines 215-217 and 232-234 are left out,
\* sharp resizes every image.
resizeAlways(dims, maxWidth, maxHeight) ==
    FitInside(dims.width, dims.height,
              OrDefault(maxWidth, dims.width), OrDefault(maxHeight, dims.height))

\* resizeToFitDimensions(inputBuffer, maxWidth, maxHeight): the dimensions of
\* the buffer it returns.
resizeToFitDimensions(dims, maxWidth, maxHeight) ==
    IF Falsy(maxWidth) /\ Falsy(maxHeight) THEN dims
    ELSE LET exceedsWidth == maxWidth # undefined /\ dims.width > maxWidth
             exceedsHeight == maxHeight # undefined /\ dims.height > maxHeight
         IN  IF ~exceedsWidth /\ ~exceedsHeight THEN dims
             ELSE FitInside(dims.width, dims.height,
                            OrDefault(maxWidth, dims.width),
                            OrDefault(maxHeight, dims.height))

\* Lines 236-243 are reached with a bound sharp does not accept: resize()
\* throws for a width or height that is not a positive integer.
resizeRejects(dims, maxWidth, maxHeight) ==
    /\ ~(Falsy(maxWidth) /\ Falsy(maxHeight))
    /\ \/ maxWidth # undefined /\ dims.width > maxWidth
       \/ maxHeight # undefined /\ dims.height > maxHeight
    /\ \/ maxWidth # undefined /\ maxWidth <= 0
       \/ maxHeight # undefined /\ maxHeight <= 0

\* compressWithResize is called: lines 151-160, up to the await of
\* resizeToFitDimensions.
CallCompressWithResize(opts, dims) ==
    /\ Idle
    /\ api' = "compressWithResize"
    /\ options' = opts
    /\ input' = dims
    /\ error' = "none"
    /\ FreshCall
    /\ NoSearch
    /\ searches' = 0
    /\ pc' = "cwr_constrain"
    /\ UNCHANGED outerVars

\* Mutant of Constrain: the destructuring takes targetSizeKB, maxWidth and
\* maxHeight out of the caller's object.
ConstrainStripsOptions ==
    /\ pc = "cwr_constrain"
    /\ ~resizeRejects(input, cwrMaxWidth, cwrMaxHeight)
    /\ constrained' = resizeToFitDimensions(input, cwrMaxWidth, cwrMaxHeight)
    /\ \E enc \in Codecs : EnterCompressToSize(enc, RestOptions(options), "first")
    /\ searches' = 1
    /\ options' = RestOptions(options)
    /\ UNCHANGED <<api, input, result, error, requested, scale,
                   lastScale, resizes, attemptMin>>
    /\ UNCHANGED outerVars

\* resizeToFitDimensions has returned constrainedBuffer; the first quality
\* search starts on it with compressionOptions (lines 160-171).
Constrain ==
    /\ pc = "cwr_constrain"
    /\ ~resizeRejects(input, cwrMaxWidth, cwrMaxHeight)
    /\ constrained' = resizeToFitDimensions(input, cwrMaxWidth, cwrMaxHeight)
    /\ \E enc \in Codecs : EnterCompressToSize(enc, RestOptions(options), "first")
    /\ searches' = 1
    /\ UNCHANGED <<api, options, input, result, error, requested, scale,
                   lastScale, resizes, attemptMin>>
    /\ UNCHANGED outerVars

\* Mutant of CheckFirstResult: the first result compared with the default
\* target instead of the configured one.
CheckFirstResultAgainstDefault ==
    /\ pc = "cwr_check"
    /\ IF ~FitsKB(result.sizeBytes, DefaultTargetSizeKB)
       THEN pc' = "cwr_loop" /\ scale' = Scale09
       ELSE pc' = "done" /\ scale' = scale
    /\ UNCHANGED <<api, options, input, result, caller, error, ctsVars,
                   constrained, requested, lastScale, histVars>>
    /\ UNCHANGED outerVars

\* if (result.sizeKB > targetSizeKB) { metadata; let scale = 0.9; ... }
CheckFirstResult ==
    /\ pc = "cwr_check"
    /\ IF ~FitsKB(result.sizeBytes, cwrTargetSizeKB)
       THEN pc' = "cwr_loop" /\ scale' = Scale09
       ELSE pc' = "done" /\ scale' = scale
    /\ UNCHANGED <<api, options, input, result, caller, error, ctsVars,
                   constrained, requested, lastScale, histVars>>
    /\ UNCHANGED outerVars

\* Mutant of ResizeContinues: the loop gives up at the scale 0.5.
ResizeContinuesAboveHalf ==
    ~FitsKB(result.sizeBytes, cwrTargetSizeKB) /\ DGreater(scale, <<2^27, 0>>)

\* while (result.sizeKB > targetSizeKB && scale > 0.3)
ResizeContinues ==
    ~FitsKB(result.sizeBytes, cwrTargetSizeKB) /\ DGreater(scale, Floor03)

\* Mutant of ResizeAttempt: each attempt scales the output of the attempt
\* before it.
ResizeAttemptOfPrevious ==
    /\ pc = "cwr_loop"
    /\ ResizeContinues
    /\ LET previous == IF resizes = 0 THEN constrained ELSE requested
       IN  requested' = [width |-> Max(FloorMul(previous.width, scale), 1),
                         height |-> Max(FloorMul(previous.height, scale), 1)]
    /\ lastScale' = scale
    /\ resizes' = resizes + 1
    /\ searches' = searches + 1
    /\ \E enc \in Codecs : EnterCompressToSize(enc, RestOptions(options), "loop")
    /\ UNCHANGED <<api, options, input, result, error, constrained, scale,
                   attemptMin>>
    /\ UNCHANGED outerVars

\* One resize attempt (lines 182-202): resize constrainedBuffer to the scaled
\* dimensions and run the quality search on the resized buffer.
ResizeAttempt ==
    /\ pc = "cwr_loop"
    /\ ResizeContinues
    /\ requested' = [width |-> Max(FloorMul(constrained.width, scale), 1),
                     height |-> Max(FloorMul(constrained.height, scale), 1)]
    /\ lastScale' = scale
    /\ resizes' = resizes + 1
    /\ searches' = searches + 1
    /\ \E enc \in Codecs : EnterCompressToSize(enc, RestOptions(options), "loop")
    /\ UNCHANGED <<api, options, input, result, error, constrained, scale,
                   attemptMin>>
    /\ UNCHANGED outerVars

\* Mutant of ReturnResult: a result still over the target is an error.
ReturnResultOrReject ==
    /\ pc = "cwr_loop"
    /\ ~ResizeContinues
    /\ IF FitsKB(result.sizeBytes, cwrTargetSizeKB)
       THEN pc' = "done" /\ error' = error
       ELSE pc' = "threw" /\ error' = "target unreachable"
    /\ UNCHANGED <<api, options, input, result, caller, ctsVars, cwrVars,
                   histVars>>
    /\ UNCHANGED outerVars

\* The resize loop has ended: return result (line 207).
ReturnResult ==
    /\ pc = "cwr_loop"
    /\ ~ResizeContinues
    /\ pc' = "done"
    /\ UNCHANGED <<api, options, input, result, caller, error, ctsVars,
                   cwrVars, histVars>>
    /\ UNCHANGED outerVars

\* Mutant of CodecThrows: the call goes on after the error of a codec call.
CodecThrowsAndRetries ==
    /\ \/ pc = "cwr_constrain" /\ ~(Falsy(cwrMaxWidth) /\ Falsy(cwrMaxHeight))
       \/ pc = "cts_loop" /\ (SearchContinues \/ bestResult = NoBest)
       \/ pc = "cwr_check" /\ ~FitsKB(result.sizeBytes, cwrTargetSizeKB)
       \/ pc = "cwr_loop" /\ ResizeContinues
    /\ error' = "codec"
    /\ UNCHANGED <<pc, api, options, input, result, caller, ctsVars, cwrVars,
                   histVars>>
    /\ UNCHANGED outerVars

\* The pending sharp call (metadata, resize or encode) rejects: the error
\* propagates out of the call.
CodecThrows ==
    /\ \/ pc = "cwr_constrain" /\ ~(Falsy(cwrMaxWidth) /\ Falsy(cwrMaxHeight))
       \/ pc = "cts_loop" /\ (SearchContinues \/ bestResult = NoBest)
       \/ pc = "cwr_check" /\ ~FitsKB(result.sizeBytes, cwrTargetSizeKB)
       \/ pc = "cwr_loop" /\ ResizeContinues
    /\ pc' = "threw"
    /\ error' = "codec"
    /\ FreshCall
    /\ NoSearch
    /\ searches' = 0
    /\ UNCHANGED <<api, options, input>>
    /\ UNCHANGED outerVars

\* Nothing of a call that has ended is kept.
Forget ==
    /\ pc' = "idle"
    /\ api' = "none" /\ options' = NoOptions /\ input' = NoDims
    /\ error' = "none"
    /\ FreshCall
    /\ NoSearch
    /\ searches' = 0

\* The caller has taken the result (or caught the error).
Settle ==
    /\ pc \in {"done", "threw"}
    /\ Forget
    /\ UNCHANGED outerVars

\* ------------------------------------------------------------ screenshot
\* screenshot.config is loaded: SCREENSHOT_CONFIG is built from process.env.
LoadConfig ==
    /\ config = NoConfig
    /\ config' = SCREENSHOT_CONFIG(env)
    /\ UNCHANGED <<callVars, env, frame, shotPc, response, warned, urlVars,
                   other>>

\* Lines 395-397: screenshot() is called and screendump() returns a buffer.
Screendump(bytes) ==
    /\ config # NoConfig
    /\ shotPc \in {"idle", "returned"}
    /\ frame' = bytes
    /\ shotPc' = "captured"
    /\ response' = NoResponse
    /\ warned' = FALSE
    /\ UNCHANGED <<callVars, env, config, urlVars, other>>

\* { image: base64Image, mediaType: SCREENSHOT_CONFIG.mediaType }
RawResponse ==
    [image |-> "raw", base64 |-> toBase64(frame), compressed |-> NoResult,
     mediaType |-> config.mediaType]

\* Lines 399-401: compression is disabled.
ReturnUncompressed ==
    /\ shotPc = "captured"
    /\ ~config.compressionEnabled
    /\ response' = RawResponse
    /\ shotPc' = "returned"
    /\ UNCHANGED <<callVars, env, config, frame, warned, urlVars, other>>

\* Mutant of EnterTry: the flag is not looked at.
EnterTryAlways ==
    /\ shotPc = "captured"
    /\ shotPc' = "try"
    /\ UNCHANGED <<callVars, env, config, frame, response, warned, urlVars,
                   other>>

\* Line 403: the try block is entered.
EnterTry ==
    /\ shotPc = "captured"
    /\ config.compressionEnabled
    /\ shotPc' = "try"
    /\ UNCHANGED <<callVars, env, config, frame, response, warned, urlVars,
                   other>>

\* Lines 406-413: the options screenshot() passes to compressWithResize.
ConfigOptions ==
    [targetSizeKB |-> config.targetSizeKB,
     initialQuality |-> config.initialQuality,
     minQuality |-> config.minQuality,
     maxIterations |-> undefined,
     maxWidth |-> config.maxWidth,
     maxHeight |-> config.maxHeight,
     format |-> config.format]

\* Lines 416-423: compressWithResize has returned.
ReturnCompressed ==
    /\ shotPc = "try"
    /\ pc = "done"
    /\ response' = [image |-> "compressed", base64 |-> <<>>,
                    compressed |-> result, mediaType |-> config.mediaType]
    /\ shotPc' = "returned"
    /\ Forget
    /\ UNCHANGED <<env, config, frame, warned, urlVars, other>>

\* Mutant of CatchAndReturnRaw: the error is thrown on to the caller.
CatchAndRethrow ==
    /\ shotPc = "try"
    /\ pc = "threw"
    /\ warned' = TRUE
    /\ response' = NoResponse
    /\ shotPc' = "rejected"
    /\ Forget
    /\ UNCHANGED <<env, config, frame, urlVars, other>>

\* Lines 424-429: compressWithResize has thrown.
CatchAndReturnRaw ==
    /\ shotPc = "try"
    /\ pc = "threw"
    /\ warned' = TRUE
    /\ response' = RawResponse
    /\ shotPc' = "returned"
    /\ Forget
    /\ UNCHANGED <<env, config, frame, urlVars, other>>

\* ------------------------------------------------------- specifications
TargetChoices == {undefined, 512, 2048}
IterationChoices == {undefined} \cup 0..MaxIter

\* Options and images of the calls of Spec.
CallOptions == Options(TargetChoices, IterationChoices, {undefined}, {"jpeg"})
CallImages == {[width |-> MaxDim, height |-> MaxDim]}

Next ==
    \/ Idle /\ \E opts \in CallOptions, dims \in CallImages :
                  CallCompressWithResize(opts, dims)
    \/ Idle /\ \E opts \in CallOptions, enc \in Codecs :
                  CallCompressToSize(opts, enc)
    \/ Constrain
    \/ Probe
    \/ ReturnFromCompressToSize
    \/ CheckFirstResult
    \/ ResizeAttempt
    \/ ReturnResult
    \/ CodecThrows
    \/ Settle

Spec == Init /\ [][Next]_vars

\* screenshot() under a configuration loaded from the environment.  The
\* qualities are set in the environment, within the modelled range.
ByteChoices == {0, 137, 255}
Buffers(n) == UNION {[1..k -> ByteChoices] : k \in 0..n}

QualityNumerals == {ToString(q) : q \in Qualities}
ShotFrames == {<<>>, <<255>>}
ShotEnvs ==
    Envs({unset, "false"}, {unset, "2048"}, QualityNumerals, QualityNumerals,
         {unset, "JPEG"}, {unset})

ShotInit ==
    /\ NoCall
    /\ env \in ShotEnvs
    /\ config = NoConfig
    /\ frame = <<>> /\ shotPc = "idle"
    /\ response = NoResponse /\ warned = FALSE
    /\ NoDecoding
    /\ other = IdleContext

ShotNext ==
    \/ LoadConfig
    \/ \E bytes \in ShotFrames : Screendump(bytes)
    \/ ReturnUncompressed
    \/ EnterTry
    \/ shotPc = "try" /\ Idle /\ \E dims \in CallImages :
                                    CallCompressWithResize(ConfigOptions, dims)
    \/ Constrain
    \/ Probe
    \/ ReturnFromCompressToSize
    \/ CheckFirstResult
    \/ ResizeAttempt
    \/ ReturnResult
    \/ CodecThrows
    \/ ReturnCompressed
    \/ CatchAndReturnRaw

ShotSpec == ShotInit /\ [][ShotNext]_vars

\* The configuration, loaded from any environment.
ConfigEnvs ==
    Envs({unset, "", "false", "0", "1", "TRUE", "Yes", "ON"},
         {unset, "abc", "0", "2048"},
         {unset, "", "Infinity", "abc"} \cup {ToString(n) : n \in (0 - 1)..MaxQuality},
         {unset, "", "Infinity", "abc"} \cup {ToString(n) : n \in (0 - 1)..MaxQuality},
         {unset, "", "png", "PNG", "Jpeg", "WebP", "GIF", "jpg"},
         {unset, "abc", "2"})

ConfigInit ==
    /\ NoCall
    /\ env \in ConfigEnvs
    /\ config = NoConfig
    /\ frame = <<>> /\ shotPc = "idle"
    /\ response = NoResponse /\ warned = FALSE
    /\ NoDecoding
    /\ other = IdleContext

ConfigNext == LoadConfig

ConfigSpec == ConfigInit /\ [][ConfigNext]_vars

\* The decoding of the string argument, for bare payloads and data URLs.
\* The subtypes png, jpeg and svg+xml.
ImageTypes == {<<41, 39, 32>>, <<35, 41, 30, 32>>, <<44, 47, 32, 62, 49, 38, 37>>}

dataUrl(type, payload) == DataImage \o type \o Base64Marker \o payload

Payloads == {toBase64(bytes) : bytes \in Buffers(MaxBytes)}
UrlInputs == Payloads \cup {dataUrl(t, b) : t \in ImageTypes, b \in Payloads}

\* Lines 40-41: the string is stripped and decoded.
DecodeInput ==
    /\ inputBuffer = NoBuffer
    /\ inputBuffer' = decodeInput(base64String)
    /\ UNCHANGED <<callVars, shotVars, base64String, byteCount, sizeInfo,
                   other>>

\* The entry point is called with another string.
NextInput(string) ==
    /\ inputBuffer # NoBuffer
    /\ base64String' = string
    /\ inputBuffer' = NoBuffer
    /\ UNCHANGED <<callVars, shotVars, byteCount, sizeInfo, other>>

UrlInit ==
    /\ NoCall
    /\ NoShot
    /\ base64String \in UrlInputs
    /\ inputBuffer = NoBuffer
    /\ NoSize
    /\ other = IdleContext

UrlNext ==
    \/ DecodeInput
    \/ \E string \in UrlInputs : NextInput(string)

UrlSpec == UrlInit /\ [][UrlNext]_vars

\* Two compressWithResize calls of overlapping screenshot()s.  The event
\* loop runs one call at a time, from one await to the next; callVars are the
\* locals of the call that runs, other those of the call that waits.
ConcEnv ==
    [NoEnv EXCEPT !.SCREENSHOT_INITIAL_QUALITY = "2",
                  !.SCREENSHOT_MIN_QUALITY = "1"]

\* The images of the overlapping calls: 512 KB at every quality, 1536 KB at
\* every quality, or 1024 KB at quality 1 and 1536 KB above.
ConcCodecs ==
    {enc \in Codecs :
        \/ \A q \in Qualities : enc[q] = 512 * BytesPerKB
        \/ \A q \in Qualities : enc[q] = 1536 * BytesPerKB
        \/ /\ enc[1] = 1024 * BytesPerKB
           /\ \A q \in Qualities \ {1} : enc[q] = 1536 * BytesPerKB}

\* Mutant of Switch: bestResult is kept in one place for all calls.
SwitchSharingBest ==
    /\ pc' = other[1] /\ api' = other[2] /\ options' = other[3]
    /\ input' = other[4] /\ result' = other[5] /\ caller' = other[6]
    /\ error' = other[7]
    /\ ctsOptions' = other[8][1] /\ buffer' = other[8][2]
    /\ low' = other[8][3] /\ high' = other[8][4]
    /\ quality' = other[8][5] /\ iterations' = other[8][6]
    /\ bestResult' = bestResult /\ encodes' = other[8][8]
    /\ probed' = other[8][9]
    /\ constrained' = other[9][1] /\ requested' = other[9][2]
    /\ scale' = other[9][3] /\ lastScale' = other[9][4]
    /\ searches' = other[10][1] /\ resizes' = other[10][2]
    /\ attemptMin' = other[10][3]
    /\ other' = callVars
    /\ UNCHANGED <<shotVars, urlVars>>

\* The call that runs reaches an await and the other call's pending promise
\* settles first: the event loop resumes the other call.  Each call's locals
\* are its own.
Switch ==
    /\ pc' = other[1] /\ api' = other[2] /\ options' = other[3]
    /\ input' = other[4] /\ result' = other[5] /\ caller' = other[6]
    /\ error' = other[7]
    /\ ctsOptions' = other[8][1] /\ buffer' = other[8][2]
    /\ low' = other[8][3] /\ high' = other[8][4]
    /\ quality' = other[8][5] /\ iterations' = other[8][6]
    /\ bestResult' = other[8][7] /\ encodes' = other[8][8]
    /\ probed' = other[8][9]
    /\ constrained' = other[9][1] /\ requested' = other[9][2]
    /\ scale' = other[9][3] /\ lastScale' = other[9][4]
    /\ searches' = other[10][1] /\ resizes' = other[10][2]
    /\ attemptMin' = other[10][3]
    /\ other' = callVars
    /\ UNCHANGED <<shotVars, urlVars>>

ConcInit ==
    /\ NoCall
    /\ env = ConcEnv
    /\ config = SCREENSHOT_CONFIG(ConcEnv)
    /\ frame = <<>> /\ shotPc = "idle"
    /\ response = NoResponse /\ warned = FALSE
    /\ NoDecoding
    /\ other = IdleContext

ConcNext ==
    \/ Idle /\ \E dims \in CallImages :
                  CallCompressWithResize(ConfigOptions, dims)
    \/ Constrain /\ buffer' \in ConcCodecs
    \/ Probe
    \/ ReturnFromCompressToSize
    \/ CheckFirstResult
    \/ ResizeAttempt /\ buffer' \in ConcCodecs
    \/ ReturnResult
    \/ Switch

ConcSpec == ConcInit /\ [][ConcNext]_vars

\* compressWithResize under every combination of maxWidth and maxHeight, on
\* images narrower and wider than the bounds and than the default bounds.
\* The quality range is the single quality 1.
DimChoices == {undefined, 0, 1, MaxDim}
DimSizes == {1, MaxDim + 1, 10, DefaultMaxWidth + 1}
DimOptions ==
    {o \in Options({512}, {undefined}, DimChoices, {"jpeg"}) :
        o.initialQuality = 1 /\ o.minQuality = 1}
DimImages == [width : DimSizes, height : DimSizes]

DimNext ==
    \/ Idle /\ \E opts \in DimOptions, dims \in DimImages :
                  CallCompressWithResize(opts, dims)
    \/ Constrain /\ buffer' \in ConcCodecs
    \/ Probe
    \/ ReturnFromCompressToSize
    \/ CheckFirstResult
    \/ ResizeAttempt /\ buffer' \in ConcCodecs
    \/ ReturnResult
    \/ CodecThrows
    \/ Settle

DimSpec == Init /\ [][DimNext]_vars

\* getBase64SizeInfo, on the strings of UrlSpec and on strings known by their
\* decoded length: the lengths next to each power of two up to 4 MB.
MaxExponent == 22
ByteCounts == {2^e + d : e \in 1..MaxExponent, d \in {0 - 1, 0, 1}}

\* Lines 255-256: the string is stripped and decoded, bytes is the length.
CountBytes ==
    /\ byteCount = undefined
    /\ byteCount' = Len(decodeInput(base64String))
    /\ UNCHANGED <<callVars, shotVars, base64String, inputBuffer, sizeInfo,
                   other>>

\* Lines 257-269: kb, mb and formatted; the record is returned.
ReturnSizeInfo ==
    /\ byteCount # undefined
    /\ sizeInfo = NoInfo
    /\ sizeInfo' = SizeInfo(byteCount)
    /\ UNCHANGED <<callVars, shotVars, base64String, inputBuffer, byteCount,
                   other>>

\* getBase64SizeInfo is called with another string.
NextString(string) ==
    /\ sizeInfo # NoInfo
    /\ base64String' = string
    /\ byteCount' = undefined
    /\ sizeInfo' = NoInfo
    /\ UNCHANGED <<callVars, shotVars, inputBuffer, other>>

\* getBase64SizeInfo is called with a long string, which has been decoded.
NextLongString(bytes) ==
    /\ sizeInfo # NoInfo
    /\ base64String' = LongString
    /\ byteCount' = bytes
    /\ sizeInfo' = NoInfo
    /\ UNCHANGED <<callVars, shotVars, inputBuffer, other>>

SizeInit ==
    /\ NoCall
    /\ NoShot
    /\ base64String \in UrlInputs
    /\ inputBuffer = NoBuffer
    /\ NoSize
    /\ other = IdleContext

SizeNext ==
    \/ CountBytes
    \/ ReturnSizeInfo
    \/ \E string \in UrlInputs : NextString(string)
    \/ \E bytes \in ByteCounts : NextLongString(bytes)

SizeSpec == SizeInit /\ [][SizeNext]_vars

\* compressToSize over quality ranges within 1..MaxScale, with the default
\* target and the default maxIterations.  The images: those that fit the
\* target up to some quality and not above it, and those that fit it at the
\* even qualities only, or at the odd ones only.
WideQualities == 1..MaxScale
WideCodecs ==
    {[q \in WideQualities |-> IF q <= t THEN 512 * BytesPerKB ELSE 1536 * BytesPerKB] :
        t \in 0..MaxScale}
    \cup {[q \in WideQualities |-> IF q % 2 = r THEN 512 * BytesPerKB ELSE 1536 * BytesPerKB] :
        r \in 0..1}
WideOptions ==
    {[NoOptions EXCEPT !.minQuality = lo, !.initialQuality = hi, !.format = "jpeg"] :
        lo \in {1, ConfigMinQuality, MaxScale}, hi \in WideQualities}

WideNext ==
    \/ Idle /\ \E opts \in WideOptions, enc \in WideCodecs :
                  /\ opts.minQuality <= opts.initialQuality
                  /\ CallCompressToSize(opts, enc)
    \/ Probe
    \/ ReturnFromCompressToSize
    \/ Settle

WideSpec == Init /\ [][WideNext]_vars

\* ------------------------------------------------------------------ claims
CwrDone == pc = "done" /\ api = "compressWithResize"

\* A compressToSize has returned and nothing has replaced its locals yet:
\* buffer, ctsOptions, bestResult and iterations are those of the search that
\* produced result.
SearchReturned == pc \in {"cwr_check", "cwr_loop", "done"}

Log2Floor(n) == CHOOSE k \in 0..30 : 2^k <= n /\ n < 2^(k + 1)

\* C1: compressWithResize searches the quality against the configured target:
\* for a constrained image whose size does not decrease with the quality and
\* that fits targetSizeKB at some quality of minQuality..initialQuality, the
\* returned result fits targetSizeKB and its quality is the highest such
\* quality.  Stated of the calls that return the result of the search on the
\* constrained image (buffer is that image), with the default maxIterations.
C1_TargetIsSearchThreshold ==
    LET best == BestFit(buffer, options.minQuality, options.initialQuality,
                        cwrTargetSizeKB)
    IN  (/\ CwrDone
         /\ resizes = 0
         /\ options.maxIterations = undefined
         /\ Monotone(buffer)
         /\ best > 0)
            => /\ FitsKB(result.sizeBytes, cwrTargetSizeKB)
               /\ result.quality = best

\* C2: one compressToSize with minQuality <= initialQuality, sizes that do not
\* decrease with the quality and maxIterations >= floor(log2(initialQuality -
\* minQuality + 1)) + 1 returns the largest quality of the range that fits its
\* target, with the encoding at that quality, if any quality of the range fits.
C2_LargestFittingQuality ==
    LET lo == ctsOptions.minQuality
        hi == ctsOptions.initialQuality
        best == BestFit(buffer, lo, hi, ctsTargetSizeKB)
    IN  (/\ SearchReturned
         /\ lo <= hi
         /\ Monotone(buffer)
         /\ ctsMaxIterations >= Log2Floor(hi - lo + 1) + 1
         /\ best > 0)
            => /\ result.quality = best
               /\ result.sizeBytes = compressBuffer(buffer, best)

\* The search had to go on after a quality that fitted, and found a higher one.
C2_Witness ==
    /\ pc = "done" /\ api = "compressToSize"
    /\ Monotone(buffer)
    /\ ctsOptions.maxIterations = 2
    /\ ctsOptions.minQuality = 1
    /\ result.quality = BestFit(buffer, 1, ctsOptions.initialQuality, ctsTargetSizeKB)
    /\ result.quality > 1 /\ result.quality < MaxQuality
    /\ result.iterations = 2

\* C3 as stated: the compressBuffer calls of one compressToSize, the one after
\* the loop included, number at most maxIterations.
C3_EncodesWithinMaxIterations == encodes <= ctsMaxIterations

\* C3 amended: at most maxIterations calls inside the loop, and one more, at
\* minQuality, exactly when no probed quality fitted: maxIterations + 1 in all.
C3_EncodesWithinMaxIterationsPlusOne ==
    /\ iterations <= ctsMaxIterations
    /\ encodes <= ctsMaxIterations + 1
    /\ (pc = "cts_loop" => encodes = iterations)
    /\ (SearchReturned =>
            encodes = iterations + (IF bestResult = NoBest THEN 1 ELSE 0))

\* The cap stopped the loop and the fallback encode came on top of it.
C3_Witness ==
    /\ SearchReturned
    /\ ctsOptions.maxIterations = 1
    /\ low <= high
    /\ encodes = 2

\* C4: the iterations field of a returned result is at most maxIterations (10
\* when not supplied), after progressive resizing too.
C4_IterationsWithinMax ==
    result # NoResult =>
        result.iterations <= OrDefault(options.maxIterations, DefaultMaxIterations)

\* A result of a resize attempt whose search used all its iterations.
C4_Witness ==
    /\ CwrDone
    /\ resizes > 0
    /\ options.maxIterations = MaxIter
    /\ result.iterations = MaxIter

\* C5: the quality of every returned result lies in minQuality..initialQuality,
\* whatever options the call accepted.
C5_QualityWithinBounds ==
    pc = "done" =>
        /\ options.minQuality <= result.quality
        /\ result.quality <= options.initialQuality

\* C6 as stated: when the resize loop ran, the returned size is the smallest
\* of the sizes the resize attempts produced, unless the result meets the
\* target.
C6_ReturnsSmallestAttempt ==
    (CwrDone /\ resizes > 0) =>
        \/ result.sizeBytes = attemptMin
        \/ FitsKB(result.sizeBytes, cwrTargetSizeKB)

\* C6 amended: when the resize loop ran, the returned result is the one of the
\* last resize attempt, whose size is at least the smallest size the attempts
\* produced.
C6_ReturnsLastAttempt ==
    (CwrDone /\ resizes > 0) =>
        /\ result = SearchResult
        /\ result.image = resizes
        /\ result.sizeBytes >= attemptMin

\* The last of several attempts is returned, over the target and larger than
\* an earlier attempt's result.
C6_Witness ==
    /\ CwrDone
    /\ resizes > 1
    /\ result.image = resizes
    /\ result.sizeBytes > attemptMin
    /\ ~FitsKB(result.sizeBytes, cwrTargetSizeKB)

\* C7: with sizes that do not decrease with the quality, the first resize
\* attempt is made only if the constrained image at minQuality exceeds
\* targetSizeKB.
C7_ResizeOnlyIfMinQualityTooLarge ==
    [][(pc = "cwr_loop" /\ resizes = 0 /\ resizes' = 1 /\ Monotone(buffer))
          => ~FitsKB(compressBuffer(buffer, options.minQuality), cwrTargetSizeKB)]_vars

\* C8: after the first quality search, a result within targetSizeKB is
\* returned as it is, with no resize and no second search; the resize loop is
\* entered only with a first result over targetSizeKB.
C8_FirstResultDecides ==
    [][pc = "cwr_check" =>
          IF FitsKB(result.sizeBytes, cwrTargetSizeKB)
          THEN /\ pc' = "done"
               /\ result' = result
               /\ searches' = 1 /\ resizes' = 0
          ELSE pc' \in {"cwr_loop", "threw"}]_vars

\* The first result was within a supplied target and was returned.
C8_Witness ==
    /\ CwrDone
    /\ options.targetSizeKB # undefined
    /\ searches = 1 /\ resizes = 0
    /\ result = SearchResult
    /\ FitsKB(result.sizeBytes, cwrTargetSizeKB)

\* C9: a call is rejected only with the error of a codec call; a search whose
\* iterations are exhausted before its range is can return, and so can the
\* resize loop that ends over the target; a call that ends unrejected ends
\* with a result, over the target or not.
C9_AlwaysReturnsResult ==
    /\ (pc = "threw" => error = "codec")
    /\ (pc # "threw" => error = "none")
    /\ (pc = "done" => result # NoResult)
    /\ (pc = "cts_loop" /\ low <= high /\ ~SearchContinues
            => ENABLED ReturnFromCompressToSize)
    /\ (pc = "cwr_loop" /\ ~ResizeContinues
                        /\ ~FitsKB(result.sizeBytes, cwrTargetSizeKB)
            => ENABLED ReturnResult)

\* Every scale was tried, every search was cut short, and the result, still
\* over the target, was returned.
C9_Witness ==
    /\ CwrDone
    /\ resizes = 7
    /\ options.maxIterations = 1
    /\ low <= high
    /\ ~FitsKB(result.sizeBytes, cwrTargetSizeKB)

\* C10: the resize loop makes at most 7 attempts; its scale starts at 0.9 and
\* is 0.1 lower after each attempt (to within 2^-28); every attempt is made
\* at a scale above 0.3; each attempt runs one quality search.
C10_ResizeLoopBounded ==
    /\ resizes <= 7
    /\ (pc = "cwr_loop" => scale[1] = ((9 - resizes) * 2^27) \div 5)
    /\ (resizes > 0 => /\ DGreater(lastScale, Floor03)
                       /\ lastScale[1] = ((10 - resizes) * 2^27) \div 5)
    /\ (api = "compressWithResize" /\ searches > 0 => searches = resizes + 1)

\* The seventh attempt, at the last scale above 0.3.
C10_Witness ==
    /\ pc = "done"
    /\ resizes = 7
    /\ searches = 8
    /\ lastScale = <<80530636, 214748376>>

\* C11: when compressWithResize throws during screenshot(), screenshot() does
\* not throw: it logs a warning and returns the base64 of the captured frame,
\* which decodes to the frame byte for byte, with the configured media type.
C11_FailureFallsBackToRawFrame ==
    [][(shotPc = "try" /\ pc = "threw") =>
          /\ shotPc' = "returned"
          /\ warned'
          /\ response'.image = "raw"
          /\ fromBase64(response'.base64) = frame
          /\ response'.mediaType = mediaTypeMap(config.format)
          /\ frame' = frame]_vars

\* A codec call failed and the captured frame came back.
C11_Witness ==
    /\ shotPc = "returned"
    /\ warned
    /\ response.image = "raw"
    /\ Len(frame) > 0
    /\ fromBase64(response.base64) = frame

\* C12: once a codec call has thrown, the invocation makes no further codec
\* call (no probe, no resize, no search) and holds no result: it only ends,
\* with the codec's error.
C12_NoRetryAfterThrow ==
    [][error = "codec" =>
          /\ pc = "threw"
          /\ result = NoResult
          /\ pc' = "idle"
          /\ encodes' = 0 /\ searches' = 0 /\ resizes' = 0]_vars

\* A compressWithResize call rejected with the codec's error.
C12_Witness ==
    /\ pc = "threw"
    /\ api = "compressWithResize"
    /\ error = "codec"
    /\ result = NoResult

\* C13: with the compression flag false, no call of the compressor is ever
\* made, no warning is logged, and screenshot() returns the base64 of exactly
\* the captured buffer.
C13_DisabledReturnsFrameUntouched ==
    (config # NoConfig /\ ~toBoolean(env.SCREENSHOT_COMPRESSION_ENABLED, TRUE)) =>
        /\ callVars = IdleContext
        /\ ~warned
        /\ shotPc \in {"idle", "captured", "returned"}
        /\ (shotPc = "returned" =>
               /\ response.image = "raw"
               /\ response.base64 = toBase64(frame)
               /\ fromBase64(response.base64) = frame)

\* A frame returned with compression switched off.
C13_Witness ==
    /\ shotPc = "returned"
    /\ env.SCREENSHOT_COMPRESSION_ENABLED = "false"
    /\ Len(frame) > 0
    /\ response.base64 = toBase64(frame)

\* C14: the loaded configuration has minQuality <= initialQuality, and
\* compressToSize never runs with minQuality > initialQuality.
C14_MinQualityNotAboveInitial ==
    /\ (config # NoConfig => config.minQuality <= config.initialQuality)
    /\ (pc = "cts_loop" => ctsOptions.minQuality <= ctsOptions.initialQuality)

\* C15: whatever SCREENSHOT_IMAGE_FORMAT holds, the loaded format is png,
\* jpeg or webp (the lower-cased value if it is one of them, png otherwise),
\* the media type is image/<format>, and compressBuffer's unsupported-format
\* branch is not taken for it.
C15_FormatIsSupported ==
    config # NoConfig =>
        /\ config.format \in Formats
        /\ ~UnsupportedFormat(config.format)
        /\ (config.format = "png" <=> config.mediaType = "image/png")
        /\ (config.format = "jpeg" <=> config.mediaType = "image/jpeg")
        /\ (config.format = "webp" <=> config.mediaType = "image/webp")
        /\ (config.format # "png" =>
               config.format = toLowerCase(env.SCREENSHOT_IMAGE_FORMAT))

\* An unknown word fell back to png.
C15_Witness ==
    /\ config # NoConfig
    /\ env.SCREENSHOT_IMAGE_FORMAT = "GIF"
    /\ config.format = "png"
    /\ config.mediaType = "image/png"

\* The payload of a data URL (what follows its comma), or the bare string.
BarePayload(string) ==
    IF \E i \in 1..Len(string) : string[i] = Comma
    THEN SubSeq(string, 1 + (CHOOSE i \in 1..Len(string) : string[i] = Comma),
                Len(string))
    ELSE string

\* C16: the buffer decoded from 'data:image/<type>;base64,' + b is the buffer
\* decoded from the bare b, and stripping leaves the bare b as it is.
C16_DataUrlPrefixTransparent ==
    inputBuffer # NoBuffer =>
        /\ inputBuffer = decodeInput(BarePayload(base64String))
        /\ stripDataUrl(BarePayload(base64String)) = BarePayload(base64String)

\* C17: the size fields of a returned result agree: sizeBytes is the length
\* of the encoded buffer, which is the length of what result.base64 decodes
\* to, sizeKB * 1024 = sizeBytes and sizeMB * 1024 * 1024 = sizeBytes.
C17_SizeFieldsConsistent ==
    (SearchReturned /\ result # NoResult) =>
        /\ result.sizeBytes = compressBuffer(buffer, result.quality)
        /\ DecodedLength(Base64Length(result.sizeBytes)
                         - Base64Padding(result.sizeBytes)) = result.sizeBytes
        /\ result.sizeKB.bits = 10 /\ result.sizeMB.bits = 20
        /\ Times2(result.sizeKB, 10) = result.sizeBytes
        /\ Times2(result.sizeMB, 20) = result.sizeBytes

\* A result of one and a half megabytes.
C17_Witness ==
    /\ pc = "done"
    /\ result.sizeBytes = 1536 * BytesPerKB
    /\ result.sizeKB.int = 1536 /\ result.sizeKB.frac = 0
    /\ result.sizeMB.int = 1 /\ result.sizeMB.frac = 2^19

\* C18: the quality of a returned result is the one its payload was encoded
\* at, on the image of the last resize (or the constrained image), and its
\* format is the requested one.
C18_QualityIsTheOneUsed ==
    (SearchReturned /\ result # NoResult) =>
        /\ result.quality \in Qualities
        /\ result.sizeBytes = compressBuffer(buffer, result.quality)
        /\ (bestResult # NoBest => result.quality = bestResult.quality
                                   /\ result.sizeBytes = bestResult.size)
        /\ (bestResult = NoBest => result.quality = ctsOptions.minQuality)
        /\ result.image = resizes
        /\ result.format = options.format

\* Quality 1 fitted, quality 2, probed after it, did not: 1 is returned.
C18_Witness ==
    /\ pc = "done"
    /\ bestResult # NoBest
    /\ ctsOptions.initialQuality = 2
    /\ iterations = 2
    /\ result.quality = 1
    /\ compressBuffer(buffer, 2) > result.sizeBytes

\* C19 as stated: result.iterations is the number of encodes of the search
\* that produced the result.
C19_IterationsCountEncodes ==
    (SearchReturned /\ result # NoResult) => result.iterations = encodes

\* C19 amended: result.iterations is the number of encodes that search made
\* inside its loop: all its encodes when a probed quality fitted, one less
\* (the encode at minQuality after the loop) when none did; the earlier
\* searches of the call do not count.
C19_IterationsCountProbes ==
    (SearchReturned /\ result # NoResult) =>
        /\ result.iterations = iterations
        /\ result.iterations = encodes - (IF bestResult = NoBest THEN 1 ELSE 0)
        /\ result.iterations <= ctsMaxIterations

\* A later search of the resize loop, ended by the fallback encode.
C19_Witness ==
    /\ CwrDone
    /\ resizes > 1
    /\ bestResult = NoBest
    /\ result.iterations = 1
    /\ encodes = 2

\* compressToSize on its own, as a function of the image and the options: the
\* loop of lines 52-68 ...
RECURSIVE BinarySearch(_, _, _, _, _, _)
BinarySearch(enc, opts, lo, hi, n, best) ==
    IF lo <= hi /\ n < OrDefault(opts.maxIterations, DefaultMaxIterations)
    THEN LET mid == (lo + hi) \div 2
         IN  IF FitsKB(enc[mid], OrDefault(opts.targetSizeKB, DefaultTargetSizeKB))
             THEN BinarySearch(enc, opts, mid + 1, hi, n + 1,
                               [size |-> enc[mid], quality |-> mid])
             ELSE BinarySearch(enc, opts, lo, mid - 1, n + 1, best)
    ELSE [best |-> best, iterations |-> n]

\* ... and the result of lines 70-91, for the image of the given resize.
RunAlone(enc, opts, image) ==
    LET found == BinarySearch(enc, opts, opts.minQuality, opts.initialQuality,
                              0, NoBest)
        chosen == IF found.best = NoBest
                  THEN [size |-> enc[opts.minQuality], quality |-> opts.minQuality]
                  ELSE found.best
    IN  [sizeBytes |-> chosen.size,
         sizeKB |-> sizeKB(chosen.size),
         sizeMB |-> sizeMB(chosen.size),
         quality |-> chosen.quality,
         iterations |-> found.iterations,
         format |-> opts.format,
         image |-> image]

\* A call, running or waiting, is where it would be had it run alone: its
\* options are those of the shared configuration, its result is the one of
\* its last search on its own image, it has run one search per image, and it
\* has ended only with a result within the target or after the last scale.
Isolated(ctx) ==
    LET ctxPc == ctx[1]
        ctxResult == ctx[5]
        ctxOptions == ctx[8][1]
        ctxBuffer == ctx[8][2]
        ctxSearches == ctx[10][1]
        ctxResizes == ctx[10][2]
    IN  /\ (ctxPc # "idle" => ctx[3] = ConfigOptions)
        /\ (ctxPc \in {"cwr_check", "cwr_loop", "done"} =>
               /\ ctxOptions = RestOptions(ConfigOptions)
               /\ ctxResult = RunAlone(ctxBuffer, ctxOptions, ctxResizes)
               /\ ctxSearches = ctxResizes + 1)
        /\ (ctxPc = "cwr_check" => ctxResizes = 0)
        /\ (ctxPc = "cwr_loop" =>
               ctx[9][3][1] = ((9 - ctxResizes) * 2^27) \div 5)
        /\ (ctxPc = "done" =>
               \/ FitsKB(ctxResult.sizeBytes, config.targetSizeKB)
               \/ ctxResizes = 7)

\* C20: two compressWithResize calls under one configuration, interleaved at
\* their awaits, do not interfere: each returns the result it returns alone,
\* and the configuration stays as loaded.
C20_ConcurrentCallsIsolated ==
    /\ Isolated(callVars)
    /\ Isolated(other)
    /\ config = SCREENSHOT_CONFIG(env)

\* Both calls are between two probes of their searches, on different images
\* and at different stages.
C20_Witness ==
    /\ pc = "cts_loop" /\ other[1] = "cts_loop"
    /\ iterations = 1 /\ other[8][6] = 1
    /\ buffer # other[8][2]
    /\ bestResult # other[8][7]
    /\ resizes = 2 /\ other[10][2] = 0

\* C21: the configuration is read-only.  Once loaded, SCREENSHOT_CONFIG keeps
\* the values it was built with from the environment, through every
\* screenshot() whether its compression succeeds or throws; the options object
\* handed to compressWithResize holds the configuration's values for as long as
\* the call runs, and the object handed on to compressToSize holds its own
\* (the rest of the destructuring) for as long as the search runs.
C21_ConfigurationReadOnly ==
    config # NoConfig =>
        /\ config = SCREENSHOT_CONFIG(env)
        /\ (pc # "idle" => options = ConfigOptions)
        /\ (pc = "cts_loop" => ctsOptions = RestOptions(ConfigOptions))

\* The search of the second resize attempt is running under screenshot(), and
\* the options object still has the targetSizeKB that compressionOptions
\* lacks.
C21_Witness ==
    /\ shotPc = "try"
    /\ pc = "cts_loop"
    /\ resizes >= 2
    /\ iterations >= 1
    /\ options.targetSizeKB = config.targetSizeKB
    /\ ctsOptions.targetSizeKB = undefined
    /\ config = SCREENSHOT_CONFIG(env)

\* compressWithResize is past its call of resizeToFitDimensions: constrained
\* holds the dimensions of constrainedBuffer.
Constrained ==
    api = "compressWithResize" /\ pc \in {"cts_loop", "cwr_check", "cwr_loop", "done"}

\* The call of resizeToFitDimensions went through sharp's resize (line 236).
Resized ==
    /\ ~(Falsy(cwrMaxWidth) /\ Falsy(cwrMaxHeight))
    /\ input.width > cwrMaxWidth \/ input.height > cwrMaxHeight

\* C22: when resizeToFitDimensions resizes, the image it returns fits inside
\* maxWidth x maxHeight, is no larger than the input in either dimension, and
\* has at least one pixel each way, after the one resize call.
C22_ResizedFitsInsideBounds ==
    (Constrained /\ Resized) =>
        /\ constrained.width <= cwrMaxWidth
        /\ constrained.height <= cwrMaxHeight
        /\ constrained.width <= input.width
        /\ constrained.height <= input.height
        /\ constrained.width >= 1 /\ constrained.height >= 1

\* An image over both bounds was resized: the width is at its bound and the
\* height, scaled by the same factor, is under its bound.
C22_Witness ==
    /\ Constrained /\ Resized
    /\ input.width > cwrMaxWidth /\ input.height > cwrMaxHeight
    /\ constrained.width = cwrMaxWidth
    /\ constrained.height < cwrMaxHeight

C24_NoBoundsNoConstraint ==
    (Constrained /\ options.maxWidth = undefined /\ options.maxHeight = undefined) =>
        constrained = input

\* The number of base64 digits of the string that getBase64SizeInfo decodes.
PayloadDigits ==
    Len(SelectSeq(stripDataUrl(base64String), IsBase64Char))

\* C25: getBase64SizeInfo returns bytes = the length of the decoded buffer
\* (six bits a digit, whole bytes only), kb and mb such that kb * 1024 = bytes
\* and mb * 1024 * 1024 = bytes, and a formatted string of the MB form exactly
\* when bytes >= 1048576, of the KB form exactly when 1024 <= bytes < 1048576
\* and "<bytes> bytes" exactly when bytes < 1024.
C25_SizeInfoExactAndLabelled ==
    sizeInfo # NoInfo =>
        /\ sizeInfo.bytes = byteCount
        /\ (base64String # LongString =>
               sizeInfo.bytes = DecodedLength(PayloadDigits))
        /\ Times2(sizeInfo.kb, 10) = sizeInfo.bytes
        /\ Times2(sizeInfo.mb, 20) = sizeInfo.bytes
        /\ sizeInfo.formatted.unit \in {"MB", "KB", "bytes"}
        /\ (sizeInfo.formatted.unit = "MB" <=> sizeInfo.bytes >= 1048576)
        /\ (sizeInfo.formatted.unit = "KB" <=>
               (1024 <= sizeInfo.bytes /\ sizeInfo.bytes < 1048576))
        /\ (sizeInfo.formatted.unit = "bytes" <=> sizeInfo.bytes < 1024)
        /\ (sizeInfo.formatted.unit = "bytes" =>
               sizeInfo.formatted.number = sizeInfo.bytes)

\* A buffer of exactly 1 MB is reported as "1.00 MB".
C25_Witness ==
    /\ sizeInfo # NoInfo
    /\ sizeInfo.bytes = 1048576
    /\ sizeInfo.formatted = [number |-> 100, unit |-> "MB"]

\* C26: the result of a compressToSize is over the search's target only by
\* the fallback: then no probe fitted, the quality is minQuality and the
\* payload is the encoding at minQuality; and when a probe fitted, the result
\* is within the target.
C26_OverTargetOnlyByFallback ==
    SearchReturned =>
        /\ (~FitsKB(result.sizeBytes, ctsTargetSizeKB) =>
               /\ bestResult = NoBest
               /\ result.quality = ctsOptions.minQuality
               /\ result.sizeBytes = compressBuffer(buffer, ctsOptions.minQuality))
        /\ (bestResult # NoBest =>
               /\ FitsKB(result.sizeBytes, ctsTargetSizeKB)
               /\ FitsKB(compressBuffer(buffer, result.quality), ctsTargetSizeKB))

\* A search with a target of 512 KB probed twice, nothing fitted, and the
\* encoding at minQuality was returned though it is over the target.
C26_Witness ==
    /\ pc = "done" /\ api = "compressToSize"
    /\ ctsOptions.targetSizeKB = 512
    /\ result.iterations = 2
    /\ bestResult = NoBest
    /\ result.quality = ctsOptions.minQuality
    /\ ~FitsKB(result.sizeBytes, ctsTargetSizeKB)

\* C27: when compressWithResize returns, its result is within targetSizeKB, or
\* all seven scales above 0.3 were attempted (0.9 down to the double just
\* above 0.3), the scale has reached the floor, and the result is the one of
\* the seventh attempt: the loop does not stop before, over the target.
C27_ReturnsFittingOrExhausted ==
    CwrDone =>
        \/ FitsKB(result.sizeBytes, cwrTargetSizeKB)
        \/ /\ resizes = 7
           /\ ~DGreater(scale, Floor03)
           /\ DGreater(lastScale, Floor03)
           /\ DSub(lastScale, Step01) = scale
           /\ result.image = resizes

\* A call with a target of 512 KB returned over it, with the result of the
\* seventh attempt.
C27_Witness ==
    /\ CwrDone
    /\ options.targetSizeKB = 512
    /\ ~FitsKB(result.sizeBytes, cwrTargetSizeKB)
    /\ resizes = 7
    /\ result.image = 7

\* floor(n * s) for the scale s = 0.9 - 0.1 * (k - 1) of the k-th attempt, in
\* exact arithmetic.
ScaledDown(n, k) == (n * (10 - k)) \div 10

\* C28: the k-th resize attempt asks for max(floor(W * s), 1) x
\* max(floor(H * s), 1), where W x H is the constrained image and
\* s = 0.9 - 0.1 * (k - 1): each dimension is at least 1 and at most the
\* constrained image's, and no attempt asks for more than the attempt before.
C28_AttemptsScaleTheConstrainedImage ==
    [][/\ (resizes' > 0 =>
              /\ requested'.width = Max(ScaledDown(constrained'.width, resizes'), 1)
              /\ requested'.height = Max(ScaledDown(constrained'.height, resizes'), 1)
              /\ requested'.width >= 1 /\ requested'.height >= 1
              /\ requested'.width <= constrained'.width
              /\ requested'.height <= constrained'.height)
       /\ ((resizes > 0 /\ resizes' = resizes + 1) =>
              /\ constrained' = constrained
              /\ requested'.width <= requested.width
              /\ requested'.height <= requested.height)]_vars

\* The seventh attempt on a constrained image of 10 x 1 asked for 3 x 1.
C28_Witness ==
    /\ CwrDone
    /\ resizes = 7
    /\ constrained = [width |-> 10, height |-> 1]
    /\ requested = [width |-> 3, height |-> 1]

\* C29: with the default maxIterations (10) and 1 <= minQuality <=
\* initialQuality <= 100, the loop of compressToSize ends because low > high,
\* under the cap, after at most 7 probes; and when the sizes do not decrease
\* with the quality and the encoding at initialQuality fits the target, the
\* result has quality = initialQuality.
C29_SearchExhaustsRangeWithinSeven ==
    (api = "compressToSize" /\ pc \in {"cts_loop", "done"}
        /\ ctsOptions.maxIterations = undefined
        /\ 1 <= ctsOptions.minQuality
        /\ ctsOptions.minQuality <= ctsOptions.initialQuality
        /\ ctsOptions.initialQuality <= 100) =>
        /\ iterations <= 7
        /\ Cardinality(probed) <= 7
        /\ iterations < ctsMaxIterations
        /\ (pc = "done" =>
               /\ low > high
               /\ result.iterations <= 7
               /\ ((/\ \A q \in DOMAIN buffer \ {1} : buffer[q - 1] <= buffer[q]
                    /\ FitsKB(compressBuffer(buffer, ctsOptions.initialQuality),
                              ctsTargetSizeKB))
                       => result.quality = ctsOptions.initialQuality))

\* The search of 1..100 on an image that fits at every quality returned
\* quality 100 after seven probes.
C29_Witness ==
    /\ pc = "done" /\ api = "compressToSize"
    /\ ctsOptions.minQuality = 1 /\ ctsOptions.initialQuality = 100
    /\ \A q \in DOMAIN buffer : FitsKB(buffer[q], ctsTargetSizeKB)
    /\ result.iterations = 7
    /\ result.quality = 100
    /\ low > high

\* C30: in a compressToSize with minQuality <= initialQuality, after every
\* step minQuality <= low and high <= initialQuality, the qualities probed so
\* far are outside low..high, and the quality recorded as best is below low;
\* and every iteration probes a quality of its window low..high that was not
\* probed before, and leaves a strictly narrower window.
C30_BinarySearchLoopInvariant ==
    [][/\ (/\ api' = "compressToSize" /\ pc' \in {"cts_loop", "done"}
           /\ ctsOptions'.minQuality <= ctsOptions'.initialQuality) =>
              /\ ctsOptions'.minQuality <= low'
              /\ high' <= ctsOptions'.initialQuality
              /\ probed' \cap (low'..high') = {}
              /\ (bestResult' # NoBest =>
                     /\ bestResult'.quality < low'
                     /\ bestResult'.quality \in probed')
       /\ (/\ api = "compressToSize" /\ iterations' = iterations + 1
           /\ ctsOptions.minQuality <= ctsOptions.initialQuality) =>
              /\ low <= quality' /\ quality' <= high
              /\ quality' \notin probed
              /\ probed' = probed \cup {quality'}
              /\ low <= low' /\ high' <= high
              /\ high' - low' < high - low]_vars

\* The third iteration has run on 1..100: three qualities probed, one of
\* them recorded as best, the window cut at both ends.
C30_Witness ==
    /\ api = "compressToSize" /\ pc = "cts_loop"
    /\ ctsOptions.minQuality = 1 /\ ctsOptions.initialQuality = 100
    /\ iterations = 3
    /\ Cardinality(probed) = 3
    /\ bestResult # NoBest /\ bestResult.quality < low
    /\ 1 < low /\ low <= high /\ high < 100

====
